---------------------------- MODULE Spec2Model ----------------------------
(***************************************************************************)
(* A model of binaries/benchmark_helper.cc: the benchmarking harness of a  *)
(* caffe2 net.  Four components are modelled, each with its own            *)
(* specification over the shared state:                                    *)
(*   SpecBackend  backendCudaSet, setDeviceType, setOperatorEngine         *)
(*   SpecLoad     loadInput                                                *)
(*   SpecRun      runNetwork                                               *)
(*   SpecWrite    writeOutput                                              *)
(* A C++ string that the code splits or parses is a sequence of lexemes    *)
(* (<<"a", ",", "b">> is "a,b"); a string the code only compares is a TLA+ *)
(* string.                                                                 *)
(***************************************************************************)
EXTENDS Integers, Sequences, FiniteSets, TLC

VARIABLES
  \* ---- backend configuration
  backend,      \* const string& backend
  cuda_arch,    \* whether __CUDA_ARCH__ is defined for this translation unit
  has_gpu,      \* what caffe2::HasCudaGPU() answers
  run_dev,      \* caffe2::DeviceType& run_dev handed to setDeviceType
  net_def,      \* caffe2::NetDef: its optional name and its repeated field op
  net0,         \* the NetDef as it was before the first call
  net_first,    \* the NetDef the first complete application produced
  applied,      \* number of complete applications so far
  bc_pc,        \* where the configuration stands
  bc_gpu,       \* the value backendCudaSet returned
  bc_err,       \* message of the exception thrown, "" when none
  \* ---- runNetwork
  run_individual, \* const bool run_individual
  warmup,       \* const int warmup
  iter,         \* const int iter
  rn_pc,        \* where runNetwork stands
  rn_i,         \* the loop variable i of the loop it is in
  rn_runs,      \* number of net->Run() calls issued so far
  sample_rate,  \* the statics of caffe2::ObserverConfig
  rn_trace,     \* the initSampleRate and Run calls issued, in order
  rn_err,       \* message of the failed check, <<>> when none
  \* ---- the workspace and the files, shared by loadInput and writeOutput
  ws,           \* caffe2::Workspace: blob name -> blob
  ws0,          \* the workspace as it was when the function was called
  fs,           \* the files: file name -> the BlobProto stored in it
  run_on_gpu,   \* const bool run_on_gpu
  \* ---- loadInput
  input,        \* const string& input
  input_file,   \* const string& input_file
  input_dims,   \* const string& input_dims
  input_type,   \* const string& input_type
  li_pc,        \* where loadInput stands
  li_i,         \* the loop variable i
  li_err,       \* the exception thrown, NoError when none
  \* ---- writeOutput
  output,       \* const string& output
  output_folder, \* const string& output_folder
  text_output,  \* const bool text_output
  wo_pc,        \* where writeOutput stands
  output_names, \* vector<string> output_names
  wo_k,         \* number of names the range-for has finished
  wo_lookups,   \* the names HasBlob was asked, in order
  wo_log,       \* the files and text reports written, in order
  wo_err        \* the exception thrown, NoError when none

bcVars == <<backend, cuda_arch, has_gpu, run_dev, net_def, net0, net_first,
            applied, bc_pc, bc_gpu, bc_err>>

rnVars == <<run_individual, warmup, iter, rn_pc, rn_i, rn_runs, sample_rate,
            rn_trace, rn_err>>

storeVars == <<ws, ws0, fs, run_on_gpu>>

liVars == <<input, input_file, input_dims, input_type, li_pc, li_i, li_err>>

woVars == <<output, output_folder, text_output, wo_pc, output_names, wo_k,
            wo_lookups, wo_log, wo_err>>

vars == <<bcVars, rnVars, storeVars, liVars, woVars>>

\* What the backend configuration leaves alone.
notBackend == <<rnVars, storeVars, liVars, woVars>>

\* What runNetwork leaves alone, net_def apart.
notRun == <<backend, cuda_arch, has_gpu, run_dev, net0, net_first, applied,
            bc_pc, bc_gpu, bc_err, storeVars, liVars, woVars>>

\* What loadInput leaves alone.
notLoad == <<bcVars, rnVars, woVars, ws0, fs, run_on_gpu>>

\* What writeOutput leaves alone.
notWrite == <<bcVars, rnVars, liVars, ws0, run_on_gpu>>

----------------------------------------------------------------------------
(* Bounds *)

MaxOps == 2
MaxApply == 2
MaxWarmup == 2
MaxIter == 2
MaxItems == 2

----------------------------------------------------------------------------
(* Each specification exercises one component; the state of the others is  *)
(* parked at a fixed value.                                                *)

NoError == [msg |-> "", arg |-> <<>>]

BackendParked ==
  /\ backend = "builtin"
  /\ has_gpu = FALSE
  /\ run_dev = "CPU"
  /\ net_first = net_def
  /\ applied = 0
  /\ bc_pc = "parked"
  /\ bc_gpu = FALSE
  /\ bc_err = ""

RunIdle ==
  /\ run_individual = FALSE
  /\ warmup = 0
  /\ iter = 0
  /\ rn_pc = "parked"
  /\ rn_i = 0
  /\ rn_runs = 0
  /\ sample_rate = [netInitSampleRate |-> 0, netFollowupSampleRate |-> 0,
                    netFollowupSampleCount |-> 0,
                    operatorNetSampleRatio |-> 0, skipIters |-> 0]
  /\ rn_trace = <<>>
  /\ rn_err = <<>>

LoadIdle ==
  /\ input = <<>>
  /\ input_file = <<>>
  /\ input_dims = <<>>
  /\ input_type = <<>>
  /\ li_pc = "parked"
  /\ li_i = 0
  /\ li_err = NoError

WriteIdle ==
  /\ output = <<>>
  /\ output_folder = <<>>
  /\ text_output = FALSE
  /\ wo_pc = "parked"
  /\ output_names = <<>>
  /\ wo_k = 0
  /\ wo_lookups = <<>>
  /\ wo_log = <<>>
  /\ wo_err = NoError

StoreIdle ==
  /\ ws = <<>>
  /\ ws0 = <<>>
  /\ fs = <<>>
  /\ run_on_gpu = FALSE

----------------------------------------------------------------------------
(* Backend configuration: lines 47-84 *)

\* "opengl" stands for an identifier the code does not know; "NONE" and ""
\* are two more of them, chosen because the code uses them as engine values.
Backends == {"builtin", "nnpack", "eigen", "mkl", "cuda", "default",
             "opengl", "NONE", ""}

DeviceTypes == {"CPU", "CUDA"}

\* Engine tags an operator of a loaded NetDef may carry.
InitialEngines == {"", "FOO"}

OperatorDefs == [device_type : DeviceTypes, engine : InitialEngines]

\* The value of an optional string field that is not set.
NoName == "<unset>"

SeqsUpTo(S, n) == UNION {[1..k -> S] : k \in 0..n}

NetDefs == [name : {NoName, "net"}, op : SeqsUpTo(OperatorDefs, MaxOps)]

\* backendCudaSet with the #else branch returning instead of throwing.
backendCudaSet_NoThrow(b, arch, gpu) ==
  IF b = "cuda" /\ arch /\ ~gpu
    THEN [thrown |-> "NO GPU support on this host machine",
          run_on_gpu |-> FALSE]
    ELSE [thrown |-> "", run_on_gpu |-> b = "cuda" /\ arch]

\* bool backendCudaSet(const string& backend): the value returned, or the
\* message of the CAFFE_THROW.
backendCudaSet(b, arch, gpu) ==
  IF b = "cuda"
    THEN IF arch
           THEN IF gpu
                  THEN [thrown |-> "", run_on_gpu |-> TRUE]
                  ELSE [thrown |-> "NO GPU support on this host machine",
                        run_on_gpu |-> FALSE]
           ELSE [thrown |-> "NO GPU support", run_on_gpu |-> FALSE]
    ELSE [thrown |-> "", run_on_gpu |-> FALSE]

\* setDeviceType with the loop starting one operator late.
setDeviceType_SkipFirst(nd, dev) ==
  [nd EXCEPT !.op = [j \in 1..Len(nd.op) |->
                       IF j = 1 THEN nd.op[j]
                       ELSE [nd.op[j] EXCEPT !.device_type = dev]]]

\* void setDeviceType(NetDef* net_def, DeviceType& run_dev)
setDeviceType(nd, dev) ==
  [nd EXCEPT !.op = [j \in 1..Len(nd.op) |->
                       [nd.op[j] EXCEPT !.device_type = dev]]]

\* The chained conditional with the tag of mkl misspelt.
engineOf_MklTypo(b) ==
  IF b = "nnpack" THEN "NNPACK"
  ELSE IF b = "eigen" THEN "EIGEN"
  ELSE IF b = "mkl" THEN "MKL"
  ELSE IF b = "cuda" THEN "CUDA"
  ELSE IF b = "default" THEN ""
  ELSE "NONE"

\* The chained conditional of lines 72-77.
engineOf(b) ==
  IF b = "nnpack" THEN "NNPACK"
  ELSE IF b = "eigen" THEN "EIGEN"
  ELSE IF b = "mkl" THEN "MKLDNN"
  ELSE IF b = "cuda" THEN "CUDA"
  ELSE IF b = "default" THEN ""
  ELSE "NONE"

\* setOperatorEngine with the CAFFE_ENFORCE of line 78 moved behind the loop
\* of lines 79-82: the operators are stamped before the backend is refused.
setOperatorEngine_EnforceLate(nd, b) ==
  IF b # "builtin"
    THEN [thrown |-> IF engineOf(b) # "NONE" THEN ""
                     ELSE "Backend is not supported",
          net |-> [nd EXCEPT !.op = [i \in 1..Len(nd.op) |->
                     [nd.op[i] EXCEPT !.engine = engineOf(b)]]]]
    ELSE [thrown |-> "", net |-> nd]

\* setOperatorEngine calling add_op() where it should call mutable_op(i):
\* every call appends one stamped operator per operator it finds.
setOperatorEngine_AddOp(nd, b) ==
  IF b # "builtin"
    THEN IF engineOf(b) # "NONE"
           THEN [thrown |-> "",
                 net |-> [nd EXCEPT !.op = nd.op \o
                            [i \in 1..Len(nd.op) |->
                               [nd.op[i] EXCEPT !.engine = engineOf(b)]]]]
           ELSE [thrown |-> "Backend is not supported", net |-> nd]
    ELSE [thrown |-> "", net |-> nd]

\* void setOperatorEngine(NetDef* net_def, const string& backend): the
\* NetDef it leaves and the message of the failed CAFFE_ENFORCE.
setOperatorEngine(nd, b) ==
  IF b # "builtin"
    THEN IF engineOf(b) # "NONE"
           THEN [thrown |-> "",
                 net |-> [nd EXCEPT !.op = [i \in 1..Len(nd.op) |->
                            [nd.op[i] EXCEPT !.engine = engineOf(b)]]]]
           ELSE [thrown |-> "Backend is not supported", net |-> nd]
    ELSE [thrown |-> "", net |-> nd]

BackendInputs ==
  /\ backend \in Backends
  /\ cuda_arch \in BOOLEAN
  /\ has_gpu \in BOOLEAN
  /\ run_dev \in DeviceTypes
  /\ net_def \in NetDefs
  /\ net0 = net_def
  /\ net_first = net_def
  /\ applied = 0
  /\ bc_pc = "backendCudaSet"
  /\ bc_gpu = FALSE
  /\ bc_err = ""

InitBackend ==
  /\ BackendInputs
  /\ RunIdle
  /\ StoreIdle
  /\ LoadIdle
  /\ WriteIdle

\* The caller asks backendCudaSet first: its answer decides the device.
BackendCudaSetThrows ==
  /\ bc_pc = "backendCudaSet"
  /\ backendCudaSet(backend, cuda_arch, has_gpu).thrown # ""
  /\ bc_err' = backendCudaSet(backend, cuda_arch, has_gpu).thrown
  /\ bc_pc' = "failed"
  /\ UNCHANGED <<backend, cuda_arch, has_gpu, run_dev, net_def, net0,
                 net_first, applied, bc_gpu>>
  /\ UNCHANGED notBackend

BackendCudaSetReturns ==
  /\ bc_pc = "backendCudaSet"
  /\ backendCudaSet(backend, cuda_arch, has_gpu).thrown = ""
  /\ bc_gpu' = backendCudaSet(backend, cuda_arch, has_gpu).run_on_gpu
  /\ bc_pc' = "setDeviceType"
  /\ UNCHANGED <<backend, cuda_arch, has_gpu, run_dev, net_def, net0,
                 net_first, applied, bc_err>>
  /\ UNCHANGED notBackend

SetDeviceType ==
  /\ bc_pc = "setDeviceType"
  /\ net_def' = setDeviceType(net_def, run_dev)
  /\ bc_pc' = "setOperatorEngine"
  /\ UNCHANGED <<backend, cuda_arch, has_gpu, run_dev, net0, net_first,
                 applied, bc_gpu, bc_err>>
  /\ UNCHANGED notBackend

SetOperatorEngineThrows ==
  /\ bc_pc = "setOperatorEngine"
  /\ setOperatorEngine(net_def, backend).thrown # ""
  /\ bc_err' = setOperatorEngine(net_def, backend).thrown
  /\ net_def' = setOperatorEngine(net_def, backend).net
  /\ bc_pc' = "failed"
  /\ UNCHANGED <<backend, cuda_arch, has_gpu, run_dev, net0, net_first,
                 applied, bc_gpu>>
  /\ UNCHANGED notBackend

SetOperatorEngineReturns ==
  /\ bc_pc = "setOperatorEngine"
  /\ setOperatorEngine(net_def, backend).thrown = ""
  /\ net_def' = setOperatorEngine(net_def, backend).net
  /\ net_first' = IF applied = 0 THEN net_def' ELSE net_first
  /\ applied' = applied + 1
  /\ bc_pc' = "done"
  /\ UNCHANGED <<backend, cuda_arch, has_gpu, run_dev, net0, bc_gpu, bc_err>>
  /\ UNCHANGED notBackend

\* The same configuration applied once more to the NetDef it produced.
Reapply ==
  /\ bc_pc = "done"
  /\ applied < MaxApply
  /\ bc_pc' = "backendCudaSet"
  /\ UNCHANGED <<backend, cuda_arch, has_gpu, run_dev, net_def, net0,
                 net_first, applied, bc_gpu, bc_err>>
  /\ UNCHANGED notBackend

NextBackend ==
  \/ BackendCudaSetThrows
  \/ BackendCudaSetReturns
  \/ SetDeviceType
  \/ SetOperatorEngineThrows
  \/ SetOperatorEngineReturns
  \/ Reapply

SpecBackend == InitBackend /\ [][NextBackend]_vars

----------------------------------------------------------------------------
(* runNetwork: lines 174-208 *)

\* ObserverConfig::initSampleRate stores its five arguments.
initSampleRate(netInit, netFollowup, netFollowupCount, opRatio, skip) ==
  [netInitSampleRate |-> netInit, netFollowupSampleRate |-> netFollowup,
   netFollowupSampleCount |-> netFollowupCount,
   operatorNetSampleRatio |-> opRatio, skipIters |-> skip]

\* The flag dropped on the way to the int parameter.
BoolToInt_Zero(b) == 0

\* A bool handed to an int parameter.
BoolToInt(b) == IF b THEN 1 ELSE 0

\* The log entry of one initSampleRate call and of one net->Run() call.
SampleEvent(rate) == [ev |-> "initSampleRate", rate |-> rate]

RunEvent(phase, i, ok, rate) ==
  [ev |-> "Run", phase |-> phase, i |-> i, ok |-> ok, rate |-> rate]

\* The warmup loop's condition with <= for <.
WarmupLoopCond_OffByOne(i, w) == i <= w

\* i < warmup, line 190
WarmupLoopCond(i, w) == i < w

\* i < iter, line 200
MainLoopCond(i, n) == i < n

\* A NetDef as runNetwork sees it: its operators are opaque to it.
RunInputs ==
  /\ net_def \in {nd \in NetDefs : nd.op = <<>>}
  /\ net0 = net_def
  /\ run_individual \in BOOLEAN
  /\ warmup \in (-1)..MaxWarmup
  /\ iter \in (-1)..MaxIter
  /\ rn_pc = "Created"
  /\ rn_i = 0
  /\ rn_runs = 0
  /\ sample_rate = [netInitSampleRate |-> 0, netFollowupSampleRate |-> 0,
                    netFollowupSampleCount |-> 0,
                    operatorNetSampleRatio |-> 0, skipIters |-> 0]
  /\ rn_trace = <<>>
  /\ rn_err = <<>>

InitRun ==
  /\ RunInputs
  /\ BackendParked
  /\ cuda_arch = FALSE
  /\ StoreIdle
  /\ LoadIdle
  /\ WriteIdle

\* The null net noticed but not fatal: the benchmark goes on.
CreateNetFails_Ignored ==
  /\ rn_pc = "Created"
  /\ net_def' = IF net_def.name = NoName
                  THEN [net_def EXCEPT !.name = "benchmark"] ELSE net_def
  /\ rn_pc' = "Starting"
  /\ rn_err' = <<"'net' Must be non NULL">>
  /\ UNCHANGED <<run_individual, warmup, iter, rn_i, rn_runs, sample_rate,
                 rn_trace>>
  /\ UNCHANGED notRun

\* Lines 180-185: name the net if it has no name, then CreateNet; a null net
\* fails CHECK_NOTNULL.
CreateNetFails ==
  /\ rn_pc = "Created"
  /\ net_def' = IF net_def.name = NoName
                  THEN [net_def EXCEPT !.name = "benchmark"] ELSE net_def
  /\ rn_pc' = "Failed"
  /\ rn_err' = <<"'net' Must be non NULL">>
  /\ UNCHANGED <<run_individual, warmup, iter, rn_i, rn_runs, sample_rate,
                 rn_trace>>
  /\ UNCHANGED notRun

CreateNetReturns ==
  /\ rn_pc = "Created"
  /\ net_def' = IF net_def.name = NoName
                  THEN [net_def EXCEPT !.name = "benchmark"] ELSE net_def
  /\ rn_pc' = "Starting"
  /\ UNCHANGED <<run_individual, warmup, iter, rn_i, rn_runs, sample_rate,
                 rn_trace, rn_err>>
  /\ UNCHANGED notRun

\* Line 188: the baseline configuration, then the warmup loop starts at 0.
StartBenchmark ==
  /\ rn_pc = "Starting"
  /\ sample_rate' =
       initSampleRate(1, 1, 1, BoolToInt(run_individual), warmup)
  /\ rn_trace' = Append(rn_trace, SampleEvent(sample_rate'))
  /\ rn_i' = 0
  /\ rn_pc' = "WarmingUp"
  /\ UNCHANGED <<run_individual, warmup, iter, rn_runs, rn_err>>
  /\ UNCHANGED <<net_def, notRun>>

\* Line 191, the Run returning true.
WarmupRunSucceeds ==
  /\ rn_pc = "WarmingUp"
  /\ WarmupLoopCond(rn_i, warmup)
  /\ rn_runs' = rn_runs + 1
  /\ rn_trace' = Append(rn_trace, RunEvent("warmup", rn_i, TRUE, sample_rate))
  /\ rn_i' = rn_i + 1
  /\ UNCHANGED <<run_individual, warmup, iter, rn_pc, sample_rate, rn_err>>
  /\ UNCHANGED <<net_def, notRun>>

\* The warmup Run with its result not checked: the loop goes on.
WarmupRunFails_Ignored ==
  /\ rn_pc = "WarmingUp"
  /\ WarmupLoopCond(rn_i, warmup)
  /\ rn_runs' = rn_runs + 1
  /\ rn_trace' = Append(rn_trace, RunEvent("warmup", rn_i, FALSE, sample_rate))
  /\ rn_i' = rn_i + 1
  /\ UNCHANGED <<run_individual, warmup, iter, rn_pc, sample_rate, rn_err>>
  /\ UNCHANGED <<net_def, notRun>>

\* Line 191, the Run returning false.
WarmupRunFails ==
  /\ rn_pc = "WarmingUp"
  /\ WarmupLoopCond(rn_i, warmup)
  /\ rn_runs' = rn_runs + 1
  /\ rn_trace' = Append(rn_trace, RunEvent("warmup", rn_i, FALSE, sample_rate))
  /\ rn_pc' = "Failed"
  /\ rn_err' = <<"Warmup run ", rn_i, " has failed.">>
  /\ UNCHANGED <<run_individual, warmup, iter, rn_i, sample_rate>>
  /\ UNCHANGED <<net_def, notRun>>

\* The check of iter made on entry of the warmup loop instead of after it.
IterCheckFails_Early ==
  /\ rn_pc = "WarmingUp"
  /\ ~(iter >= 0)
  /\ rn_pc' = "Failed"
  /\ rn_err' = <<"Number of main runs should be non negative, provided ",
                 iter, ".">>
  /\ UNCHANGED <<run_individual, warmup, iter, rn_i, rn_runs, sample_rate,
                 rn_trace>>
  /\ UNCHANGED <<net_def, notRun>>

\* Lines 195-199 after the warmup loop has ended: iter is negative.
IterCheckFails ==
  /\ rn_pc = "WarmingUp"
  /\ ~WarmupLoopCond(rn_i, warmup)
  /\ ~(iter >= 0)
  /\ rn_pc' = "Failed"
  /\ rn_err' = <<"Number of main runs should be non negative, provided ",
                 iter, ".">>
  /\ UNCHANGED <<run_individual, warmup, iter, rn_i, rn_runs, sample_rate,
                 rn_trace>>
  /\ UNCHANGED <<net_def, notRun>>

\* The main loop entered with the check of lines 195-199 left out.
IterCheckPasses_NoCheck ==
  /\ rn_pc = "WarmingUp"
  /\ ~WarmupLoopCond(rn_i, warmup)
  /\ rn_pc' = "Measuring"
  /\ rn_i' = 0
  /\ UNCHANGED <<run_individual, warmup, iter, rn_runs, sample_rate,
                 rn_trace, rn_err>>
  /\ UNCHANGED <<net_def, notRun>>

\* Lines 195-199 passing: the main loop of line 200 is entered.
IterCheckPasses ==
  /\ rn_pc = "WarmingUp"
  /\ ~WarmupLoopCond(rn_i, warmup)
  /\ iter >= 0
  /\ rn_pc' = "Measuring"
  /\ rn_i' = 0
  /\ UNCHANGED <<run_individual, warmup, iter, rn_runs, sample_rate,
                 rn_trace, rn_err>>
  /\ UNCHANGED <<net_def, notRun>>

\* The coarse Run issued without the initSampleRate call of line 201.
MainRunSucceeds_NoCoarseProfile ==
  /\ rn_pc = "Measuring"
  /\ MainLoopCond(rn_i, iter)
  /\ rn_runs' = rn_runs + 1
  /\ rn_trace' = Append(rn_trace, RunEvent("coarse", rn_i, TRUE, sample_rate))
  /\ IF run_individual
       THEN rn_pc' = "MeasuringFine" /\ rn_i' = rn_i
       ELSE rn_pc' = "Measuring" /\ rn_i' = rn_i + 1
  /\ UNCHANGED <<run_individual, warmup, iter, sample_rate, rn_err>>
  /\ UNCHANGED <<net_def, notRun>>

\* Lines 201-202: the coarse profile, then the Run, which returns true;
\* line 203 decides whether the fine replica follows.
MainRunSucceeds ==
  /\ rn_pc = "Measuring"
  /\ MainLoopCond(rn_i, iter)
  /\ sample_rate' = initSampleRate(1, 1, 1, 0, warmup)
  /\ rn_runs' = rn_runs + 1
  /\ rn_trace' = rn_trace \o <<SampleEvent(sample_rate'),
                               RunEvent("coarse", rn_i, TRUE, sample_rate')>>
  /\ IF run_individual
       THEN rn_pc' = "MeasuringFine" /\ rn_i' = rn_i
       ELSE rn_pc' = "Measuring" /\ rn_i' = rn_i + 1
  /\ UNCHANGED <<run_individual, warmup, iter, rn_err>>
  /\ UNCHANGED <<net_def, notRun>>

MainRunFails ==
  /\ rn_pc = "Measuring"
  /\ MainLoopCond(rn_i, iter)
  /\ sample_rate' = initSampleRate(1, 1, 1, 0, warmup)
  /\ rn_runs' = rn_runs + 1
  /\ rn_trace' = rn_trace \o <<SampleEvent(sample_rate'),
                               RunEvent("coarse", rn_i, FALSE, sample_rate')>>
  /\ rn_pc' = "Failed"
  /\ rn_err' = <<"Main run ", rn_i, " has failed.">>
  /\ UNCHANGED <<run_individual, warmup, iter, rn_i>>
  /\ UNCHANGED <<net_def, notRun>>

\* Lines 204-205: the fine profile, then the Run of the same i.
OperatorRunSucceeds ==
  /\ rn_pc = "MeasuringFine"
  /\ sample_rate' = initSampleRate(1, 1, 1, 1, warmup)
  /\ rn_runs' = rn_runs + 1
  /\ rn_trace' = rn_trace \o <<SampleEvent(sample_rate'),
                               RunEvent("fine", rn_i, TRUE, sample_rate')>>
  /\ rn_i' = rn_i + 1
  /\ rn_pc' = "Measuring"
  /\ UNCHANGED <<run_individual, warmup, iter, rn_err>>
  /\ UNCHANGED <<net_def, notRun>>

OperatorRunFails ==
  /\ rn_pc = "MeasuringFine"
  /\ sample_rate' = initSampleRate(1, 1, 1, 1, warmup)
  /\ rn_runs' = rn_runs + 1
  /\ rn_trace' = rn_trace \o <<SampleEvent(sample_rate'),
                               RunEvent("fine", rn_i, FALSE, sample_rate')>>
  /\ rn_pc' = "Failed"
  /\ rn_err' = <<"Main run ", rn_i, " with operator has failed.">>
  /\ UNCHANGED <<run_individual, warmup, iter, rn_i>>
  /\ UNCHANGED <<net_def, notRun>>

\* Line 208: the main loop has ended and runNetwork returns.
RunNetworkReturns ==
  /\ rn_pc = "Measuring"
  /\ ~MainLoopCond(rn_i, iter)
  /\ rn_pc' = "Done"
  /\ UNCHANGED <<run_individual, warmup, iter, rn_i, rn_runs, sample_rate,
                 rn_trace, rn_err>>
  /\ UNCHANGED <<net_def, notRun>>

NextRun ==
  \/ CreateNetFails
  \/ CreateNetReturns
  \/ StartBenchmark
  \/ WarmupRunSucceeds
  \/ WarmupRunFails
  \/ IterCheckFails
  \/ IterCheckPasses
  \/ MainRunSucceeds
  \/ MainRunFails
  \/ OperatorRunSucceeds
  \/ OperatorRunFails
  \/ RunNetworkReturns

SpecRun == InitRun /\ [][NextRun]_vars

\* runNetwork is straight-line sequential code and every Run is taken to
\* return: a step that is possible is eventually taken.
SpecRunFair == SpecRun /\ WF_vars(NextRun)

----------------------------------------------------------------------------
(* Claims on runNetwork *)

RunsIn(trace) == Cardinality({k \in 1..Len(trace) : trace[k].ev = "Run"})

\* C1: with warmup = W >= 0 and iter = I >= 0, when runNetwork returns, which
\* it does only when every Run succeeded, it has issued exactly W + I Run
\* calls if run_individual is false and W + 2*I if it is true; until then it
\* has issued fewer, and a run that fails is the last one.
C1_RunCount ==
  warmup >= 0 =>
    /\ rn_runs = RunsIn(rn_trace)
    /\ rn_pc = "Done" =>
         /\ iter >= 0
         /\ \A k \in 1..Len(rn_trace) :
               rn_trace[k].ev = "Run" => rn_trace[k].ok
         /\ rn_runs = warmup + (IF run_individual THEN 2 * iter ELSE iter)
    /\ (iter >= 0 /\ rn_pc \notin {"Done", "Failed", "Created"}) =>
         /\ ENABLED NextRun
         /\ rn_runs <= warmup + (IF run_individual THEN 2 * iter ELSE iter)

C1_Witness ==
  /\ rn_pc = "Done"
  /\ warmup = 2
  /\ iter = 2
  /\ run_individual
  /\ rn_runs = 6


\* The message of the CAFFE_ENFORCE a failed Run of that phase and index
\* raises.
RunFailureMessage(phase, i) ==
  IF phase = "warmup" THEN <<"Warmup run ", i, " has failed.">>
  ELSE IF phase = "coarse" THEN <<"Main run ", i, " has failed.">>
  ELSE <<"Main run ", i, " with operator has failed.">>

\* C11: a Run that fails (a warmup run, a coarse measured run or a fine
\* replica) is the last call runNetwork makes: runNetwork has failed with
\* the message of that phase and index, which for the fine pass says "with
\* operator", no Run follows it and the sampling state is the one that run
\* executed under.
C11_RunFailureAborts ==
  \A k \in 1..Len(rn_trace) :
    (rn_trace[k].ev = "Run" /\ ~rn_trace[k].ok) =>
      /\ k = Len(rn_trace)
      /\ rn_pc = "Failed"
      /\ rn_err = RunFailureMessage(rn_trace[k].phase, rn_trace[k].i)
      /\ rn_i = rn_trace[k].i
      /\ sample_rate = rn_trace[k].rate
      /\ rn_runs = RunsIn(rn_trace)
      /\ ~ENABLED NextRun

C11_Witness ==
  /\ rn_pc = "Failed"
  /\ warmup = 2
  /\ rn_err = <<"Main run ", 1, " with operator has failed.">>
  /\ rn_runs = 6

MeasuredRunsIn(trace) ==
  {k \in 1..Len(trace) :
     trace[k].ev = "Run" /\ trace[k].phase \in {"coarse", "fine"}}

FailedRunsIn(trace) ==
  {k \in 1..Len(trace) : trace[k].ev = "Run" /\ ~trace[k].ok}

IterMessage ==
  <<"Number of main runs should be non negative, provided ", iter, ".">>

\* C12: with a negative iter runNetwork never enters the measured phase and
\* never returns normally: no coarse and no fine Run is ever issued, and
\* once the warmup loop has ended the only step left is the fatal error that
\* reports the provided value of iter.
C12_NegativeIterFails ==
  iter < 0 =>
    /\ MeasuredRunsIn(rn_trace) = {}
    /\ rn_pc \notin {"Measuring", "MeasuringFine", "Done"}
    /\ (rn_pc = "WarmingUp" /\ ~WarmupLoopCond(rn_i, warmup)) =>
         (ENABLED IterCheckFails /\ ~ENABLED IterCheckPasses)
    /\ (rn_pc = "Failed" /\ rn_trace # <<>> /\ FailedRunsIn(rn_trace) = {}) =>
         rn_err = IterMessage

C12_Witness ==
  /\ iter = -1
  /\ warmup = 1
  /\ rn_pc = "Failed"
  /\ rn_err = <<"Number of main runs should be non negative, provided ",
                -1, ".">>

\* The two profiles of the main loop, lines 201 and 204.
CoarseProfile == initSampleRate(1, 1, 1, 0, warmup)

FineProfile == initSampleRate(1, 1, 1, 1, warmup)

IsRun(e, phase, i) == e.ev = "Run" /\ e.phase = phase /\ e.i = i

RunsOf(trace, phase, i) ==
  {k \in 1..Len(trace) : IsRun(trace[k], phase, i)}

\* What precedes and what follows the coarse Run at position k of the trace.
CoarseRunInOrder(k) ==
  LET e == rn_trace[k] IN
  /\ k > 1
  /\ rn_trace[k - 1] = SampleEvent(CoarseProfile)
  /\ e.rate = CoarseProfile
  /\ e.rate.operatorNetSampleRatio = 0
  /\ e.i \in 0..(iter - 1)
  /\ (e.ok /\ k = Len(rn_trace)) =>
       IF run_individual
         THEN rn_pc = "MeasuringFine" /\ rn_i = e.i
         ELSE rn_pc \in {"Measuring", "Done"} /\ rn_i = e.i + 1
  /\ (e.ok /\ k < Len(rn_trace)) =>
       /\ k + 2 <= Len(rn_trace)
       /\ IF run_individual
            THEN /\ rn_trace[k + 1] = SampleEvent(FineProfile)
                 /\ IsRun(rn_trace[k + 2], "fine", e.i)
            ELSE /\ rn_trace[k + 1] = SampleEvent(CoarseProfile)
                 /\ IsRun(rn_trace[k + 2], "coarse", e.i + 1)

\* What precedes and what follows the fine Run at position k of the trace.
FineRunInOrder(k) ==
  LET e == rn_trace[k] IN
  /\ run_individual
  /\ k > 3
  /\ rn_trace[k - 1] = SampleEvent(FineProfile)
  /\ rn_trace[k - 2] = RunEvent("coarse", e.i, TRUE, CoarseProfile)
  /\ e.rate = FineProfile
  /\ e.rate.operatorNetSampleRatio = 1
  /\ Cardinality(RunsOf(rn_trace, "fine", e.i)) = 1
  /\ (e.ok /\ k < Len(rn_trace)) =>
       /\ k + 2 <= Len(rn_trace)
       /\ rn_trace[k + 1] = SampleEvent(CoarseProfile)
       /\ IsRun(rn_trace[k + 2], "coarse", e.i + 1)

\* C14: in the measured phase every coarse Run of an index i comes directly
\* after a write of the coarse profile (per-operator ratio 0) and executes
\* under it; with run_individual the coarse Run of i is followed directly by
\* a write of the fine profile (per-operator ratio 1) and exactly one fine
\* Run of the same i, before the coarse Run of i + 1; without run_individual
\* no fine Run is issued and no measured Run executes under the fine
\* profile; and on return every index of 0..iter-1 has had its coarse Run.
C14_MeasuredPhaseProfiles ==
  /\ \A k \in 1..Len(rn_trace) :
       /\ (rn_trace[k].ev = "Run" /\ rn_trace[k].phase = "coarse") =>
            CoarseRunInOrder(k)
       /\ (rn_trace[k].ev = "Run" /\ rn_trace[k].phase = "fine") =>
            FineRunInOrder(k)
  /\ ~run_individual =>
       \A k \in MeasuredRunsIn(rn_trace) :
         rn_trace[k].phase = "coarse" /\ rn_trace[k].rate # FineProfile
  /\ rn_pc = "Done" =>
       \A i \in 0..(iter - 1) :
         /\ Cardinality(RunsOf(rn_trace, "coarse", i)) = 1
         /\ Cardinality(RunsOf(rn_trace, "fine", i)) =
              BoolToInt(run_individual)

C14_Witness ==
  /\ rn_pc = "Done"
  /\ run_individual
  /\ iter = 2
  /\ warmup = 1
  /\ Len(rn_trace) = 10

\* The baseline of line 188: the per-operator ratio is the caller's flag.
Baseline ==
  initSampleRate(1, 1, 1, IF run_individual THEN 1 ELSE 0, warmup)

SampleWritesIn(trace) ==
  {k \in 1..Len(trace) : trace[k].ev = "initSampleRate"}

\* C15: the sampling state is written once, before the first warmup Run,
\* with the baseline whose per-operator ratio is 1 exactly when
\* run_individual is set; it is not written again while the warmup loop
\* runs, and every warmup Run executes under that baseline.
C15_WarmupUnderBaseline ==
  /\ rn_pc = "WarmingUp" =>
       /\ SampleWritesIn(rn_trace) = {1}
       /\ sample_rate = Baseline
  /\ \A k \in 1..Len(rn_trace) :
       (rn_trace[k].ev = "Run" /\ rn_trace[k].phase = "warmup") =>
         /\ k >= 2
         /\ rn_trace[1] = SampleEvent(Baseline)
         /\ rn_trace[1].rate.operatorNetSampleRatio = 1 <=> run_individual
         /\ rn_trace[1].rate.operatorNetSampleRatio = 0 <=> ~run_individual
         /\ \A j \in 2..k :
              /\ IsRun(rn_trace[j], "warmup", j - 2)
              /\ rn_trace[j].rate = Baseline

C15_Witness ==
  /\ rn_pc = "WarmingUp"
  /\ run_individual
  /\ warmup = 2
  /\ Len(rn_trace) = 3
  /\ rn_trace[3].rate.operatorNetSampleRatio = 1

\* The position of runNetwork in the order Created, WarmingUp, Measuring,
\* Done; "Starting" is the net created and not yet warming up, and a fatal
\* error ends the call from any position.
Rank(pc) ==
  CASE pc = "Created" -> 0
    [] pc = "Starting" -> 1
    [] pc = "WarmingUp" -> 2
    [] pc \in {"Measuring", "MeasuringFine"} -> 3
    [] pc \in {"Done", "Failed"} -> 4

NullNetMessage == <<"'net' Must be non NULL">>

WarmupRunsIn(trace) ==
  {k \in 1..Len(trace) : trace[k].ev = "Run" /\ trace[k].phase = "warmup"}

\* What holds of every state of runNetwork.
PhaseOrder ==
  /\ rn_pc # "Created" =>
       net_def.name = (IF net0.name = NoName THEN "benchmark" ELSE net0.name)
  /\ rn_trace # <<>> => (Rank(rn_pc) >= 2 /\ rn_err # NullNetMessage)
  /\ rn_err = NullNetMessage =>
       (rn_pc = "Failed" /\ rn_trace = <<>> /\ rn_runs = 0)
  /\ \A k \in WarmupRunsIn(rn_trace) :
       \A m \in MeasuredRunsIn(rn_trace) : k < m
  /\ MeasuredRunsIn(rn_trace) # {} => Rank(rn_pc) >= 3
  /\ rn_pc = "Done" =>
       /\ FailedRunsIn(rn_trace) = {}
       /\ ~ENABLED NextRun
  /\ rn_pc = "Failed" =>
       \/ rn_err = NullNetMessage
       \/ FailedRunsIn(rn_trace) # {}
       \/ iter < 0

\* What holds of every step of runNetwork.
PhaseForward ==
  /\ Rank(rn_pc') >= Rank(rn_pc)
  /\ rn_pc \notin {"Done", "Failed"}
  /\ rn_runs' # rn_runs =>
       /\ Len(rn_trace') > Len(rn_trace)
       /\ LET e == rn_trace'[Len(rn_trace')] IN
            /\ e.ev = "Run"
            /\ Rank(rn_pc) = (IF e.phase = "warmup" THEN 2 ELSE 3)

\* C16: runNetwork only moves forward through Created, WarmingUp, Measuring
\* and Done. The net is created, under the default name when the definition
\* had none, before any Run; every warmup Run comes before every measured
\* Run and none is issued once the measured phase has begun; a failed
\* CreateNet leaves no Run issued; nothing happens after Done or after a
\* fatal error; and the call always ends, in Done unless CreateNet or a Run
\* failed or iter is negative.
C16_ForwardOnly ==
  /\ []PhaseOrder
  /\ [][PhaseForward]_vars
  /\ <>(rn_pc \in {"Done", "Failed"})

C16_Witness ==
  /\ rn_pc = "Done"
  /\ net0.name = NoName
  /\ net_def.name = "benchmark"
  /\ warmup = 2
  /\ iter = 2
  /\ ~run_individual
  /\ rn_runs = 4

WarmupCount == IF warmup >= 0 THEN warmup ELSE 0

\* C18: the negative-iter error is raised only after the warmup phase: when
\* it is raised the net has been created (and named), the baseline sampling
\* state has been written and is still in force, and exactly W warmup Runs,
\* all successful, have been issued and nothing else (none for W < 0).
C18_IterCheckedAfterWarmup ==
  (rn_pc = "Failed" /\ rn_err = IterMessage) =>
    /\ iter < 0
    /\ net_def.name # NoName
    /\ Len(rn_trace) = 1 + WarmupCount
    /\ rn_trace[1] = SampleEvent(Baseline)
    /\ sample_rate = Baseline
    /\ \A j \in 2..Len(rn_trace) :
         IsRun(rn_trace[j], "warmup", j - 2) /\ rn_trace[j].ok
    /\ rn_runs = WarmupCount

C18_Witness ==
  /\ rn_pc = "Failed"
  /\ iter = -1
  /\ warmup = 2
  /\ rn_err = IterMessage
  /\ rn_runs = 2
  /\ Len(rn_trace) = 3

----------------------------------------------------------------------------
(* Claims on the backend configuration *)

CudaAvailable == cuda_arch /\ has_gpu

\* C4: for backend = cuda without accelerator support compiled in, or with
\* no accelerator device present, configuration fails with the capability
\* error of that case and every operator keeps the device type and the
\* engine tag it had before the call.
C4_CudaUnavailableFailsUnmodified ==
  (backend = "cuda" /\ ~CudaAvailable) =>
    /\ bc_pc \in {"backendCudaSet", "failed"}
    /\ net_def = net0
    /\ bc_pc = "failed" =>
         bc_err = (IF cuda_arch THEN "NO GPU support on this host machine"
                   ELSE "NO GPU support")

C4_Witness ==
  /\ backend = "cuda" /\ ~cuda_arch
  /\ bc_pc = "failed"
  /\ Len(net0.op) = 2
  /\ net0.op[1].device_type # run_dev

SucceedingBackends == {"builtin", "nnpack", "eigen", "mkl", "default"}

ConfigurationSucceeds ==
  \/ backend \in SucceedingBackends
  \/ backend = "cuda" /\ CudaAvailable

\* C5: for builtin, nnpack, eigen, mkl, default, and for cuda with an
\* accelerator available, configuration does not fail, runs to its end, and
\* then every operator (of any number of operators) has the resolved device
\* type, whatever it had before and whatever the engine mapping did.
C5_DeviceTypeStamped ==
  ConfigurationSucceeds =>
    /\ bc_pc # "failed"
    /\ bc_err = ""
    /\ bc_pc # "done" => ENABLED NextBackend
    /\ bc_pc = "done" =>
         \A j \in 1..Len(net_def.op) : net_def.op[j].device_type = run_dev

C5_Witness ==
  /\ backend = "nnpack"
  /\ bc_pc = "done"
  /\ Len(net0.op) = 2
  /\ \A j \in 1..2 : net0.op[j].device_type # run_dev

EngineTagOf(b) ==
  CASE b = "nnpack" -> "NNPACK"
    [] b = "eigen" -> "EIGEN"
    [] b = "mkl" -> "MKLDNN"
    [] b = "cuda" -> "CUDA"
    [] b = "default" -> ""

\* C6: once setOperatorEngine has returned, builtin has left every engine tag
\* as it was, nnpack, eigen, mkl and cuda have stamped NNPACK, EIGEN, MKLDNN
\* and CUDA on every operator and default the empty tag; for every other
\* identifier setOperatorEngine never returns and fails with "Backend is not
\* supported".
C6_EngineMapping ==
  /\ (bc_pc = "done" /\ backend = "builtin") =>
        /\ Len(net_def.op) = Len(net0.op)
        /\ \A i \in 1..Len(net0.op) : net_def.op[i].engine = net0.op[i].engine
  /\ (bc_pc = "done" /\ backend # "builtin") =>
        /\ backend \in {"nnpack", "eigen", "mkl", "cuda", "default"}
        /\ Len(net_def.op) = Len(net0.op)
        /\ \A i \in 1..Len(net_def.op) :
              net_def.op[i].engine = EngineTagOf(backend)
  /\ backend \notin {"builtin", "nnpack", "eigen", "mkl", "cuda", "default"} =>
        /\ bc_pc # "done"
        /\ bc_pc = "failed" => bc_err = "Backend is not supported"
        /\ bc_pc \notin {"failed", "done"} => ENABLED NextBackend

C6_Witness ==
  /\ backend = "mkl"
  /\ bc_pc = "done"
  /\ Len(net0.op) = 2
  /\ net0.op[1].engine = "FOO"
  /\ net_def.op[1].engine = "MKLDNN"

EnginesKept ==
  /\ Len(net_def.op) = Len(net0.op)
  /\ \A i \in 1..Len(net0.op) : net_def.op[i].engine = net0.op[i].engine

EnginesAllEqual(tag) ==
  /\ Len(net_def.op) = Len(net0.op)
  /\ \A i \in 1..Len(net_def.op) : net_def.op[i].engine = tag

\* C19: setOperatorEngine is all-or-nothing. When it fails with "Backend is
\* not supported" every operator still has the engine it came with; when it
\* returns for a backend other than builtin every operator carries the one
\* tag of that backend; and in no state have only some of the operators been
\* rewritten.
C19_EngineAllOrNothing ==
  /\ (bc_pc = "failed" /\ bc_err = "Backend is not supported") => EnginesKept
  /\ (bc_pc = "done" /\ backend # "builtin") =>
        \E tag \in {"NNPACK", "EIGEN", "MKLDNN", "CUDA", ""} :
          EnginesAllEqual(tag)
  /\ \/ EnginesKept
     \/ \E tag \in {"NNPACK", "EIGEN", "MKLDNN", "CUDA", ""} :
          EnginesAllEqual(tag)

C19_Witness ==
  /\ bc_pc = "failed"
  /\ bc_err = "Backend is not supported"
  /\ backend = "opengl"
  /\ Len(net0.op) = 2
  /\ net0.op[1].engine = "FOO"
  /\ net0.op[2].engine = ""
  /\ net_def.op[1].engine = "FOO"
  /\ net_def.op[1].device_type = run_dev

\* C7: once the configuration has been applied, applying setDeviceType and
\* setOperatorEngine again with the same backend and device type leaves the
\* graph definition equal to what the first application produced, at every
\* step of the second application.
C7_Idempotent ==
  applied >= 1 => net_def = net_first

C7_Witness ==
  /\ applied = 2
  /\ bc_pc = "done"
  /\ backend = "eigen"
  /\ Len(net0.op) = 2
  /\ net_def # net0

----------------------------------------------------------------------------
(* Strings, tensors and the workspace, as loadInput and writeOutput use    *)
(* them.                                                                   *)

\* caffe2::split: the pieces std::getline cuts at sep.  No piece follows a
\* trailing separator, and the empty string has no piece.
RECURSIVE split(_, _)
split(sep, str) ==
  IF str = <<>> THEN <<>>
  ELSE IF \E k \in 1..Len(str) : str[k] = sep
    THEN LET k == CHOOSE k \in 1..Len(str) :
                    /\ str[k] = sep
                    /\ \A j \in 1..(k - 1) : str[j] # sep
         IN <<SubSeq(str, 1, k - 1)>> \o split(sep, SubSeq(str, k + 1, Len(str)))
    ELSE <<str>>

\* The flag value that lists the items, separated by sep.
RECURSIVE Join(_, _)
Join(items, sep) ==
  IF items = <<>> THEN <<>>
  ELSE IF Len(items) = 1 THEN items[1]
  ELSE items[1] \o <<sep>> \o Join(Tail(items), sep)

Digits == {"0", "1", "2", "3", "4", "5", "6", "7", "8", "9"}

DigitValue(c) ==
  CASE c = "0" -> 0 [] c = "1" -> 1 [] c = "2" -> 2 [] c = "3" -> 3
    [] c = "4" -> 4 [] c = "5" -> 5 [] c = "6" -> 6 [] c = "7" -> 7
    [] c = "8" -> 8 [] c = "9" -> 9

\* caffe2::stoi: the value of the leading digits; it throws when there is
\* none.
stoiThrows(str) == str = <<>> \/ str[1] \notin Digits

RECURSIVE stoiFrom(_, _)
stoiFrom(str, acc) ==
  IF str = <<>> \/ str[1] \notin Digits THEN acc
  ELSE stoiFrom(Tail(str), 10 * acc + DigitValue(str[1]))

stoi(str) == stoiFrom(str, 0)

RECURSIVE Prod(_)
Prod(dims) == IF dims = <<>> THEN 1 ELSE Head(dims) * Prod(Tail(dims))

ItemSize(dtype) ==
  CASE dtype = "uint8_t" -> 1 [] dtype = "float" -> 4 [] OTHER -> 0

\* A blob that holds nothing yet.
EmptyBlob ==
  [type |-> "none", dims |-> <<>>, size |-> -1, dtype |-> "none",
   data |-> "none"]

\* Blob::GetMutable<T>: the held tensor if it is a T, else a fresh T.
GetMutable(blob, T) ==
  IF blob.type = T THEN blob
  ELSE [type |-> T, dims |-> <<>>, size |-> -1, dtype |-> "none",
        data |-> "none"]

\* Tensor::Resize: the buffer is kept when the new shape fits in it.
Resize(t, dims) ==
  [t EXCEPT !.dims = dims,
            !.size = Prod(dims),
            !.data = IF t.data # "none"
                        /\ Prod(dims) * ItemSize(t.dtype)
                             <= t.size * ItemSize(t.dtype)
                       THEN t.data ELSE "none"]

\* Tensor::mutable_data<T>: typed storage, allocated unless it is there.
mutable_data(t, T) ==
  IF t.dtype = T /\ (t.data # "none" \/ t.size = 0) THEN t
  ELSE [t EXCEPT !.dtype = T,
                 !.data = IF t.size = 0 THEN "none" ELSE "uninit"]

HasBlob(w, name) == name \in DOMAIN w

\* Workspace::CreateBlob: the blob of that name, created if there is none.
CreateBlob(w, name) ==
  IF HasBlob(w, name) THEN w ELSE w @@ (name :> EmptyBlob)

\* Blob::Serialize and Blob::Deserialize: the BlobProto of a tensor, and the
\* tensor of a BlobProto.
Serialize(blob, name) ==
  [name |-> name, type |-> blob.type, dims |-> blob.dims,
   dtype |-> blob.dtype, data |-> blob.data]

Deserialize(proto) ==
  [type |-> proto.type, dims |-> proto.dims, size |-> Prod(proto.dims),
   dtype |-> proto.dtype, data |-> proto.data]

\* caffe2::ReadProtoFromFile: whether the file can be read.
ReadProtoFromFile(files, file) == file \in DOMAIN files

\* The two blob names, the two file names and the tensor and the file the
\* model starts from.
BlobNames == {<<"a">>, <<"b">>}

FileNames == {<<"f">>, <<"g">>}

HostTensor ==
  [type |-> "TensorCPU", dims |-> <<7>>, size |-> 7, dtype |-> "float",
   data |-> "v"]

StoredProto ==
  [name |-> <<"x">>, type |-> "TensorCPU", dims |-> <<3, 2>>,
   dtype |-> "uint8_t", data |-> "p"]

----------------------------------------------------------------------------
(* loadInput: lines 86-172 *)

input_names == split(",", input)

input_files == split(",", input_file)

input_dims_list == split(";", input_dims)

input_type_list == split(";", input_type)

\* Lines 98-101
FileCountOk(names, files) == Len(names) = Len(files)

\* Lines 118-121
DimsCountOk(names, dimsList) == Len(names) = Len(dimsList)

\* The check of lines 123-126 with <= for ==.
TypeCountOk_AtMost(names, typeList) == Len(names) <= Len(typeList)

\* Lines 123-126
TypeCountOk(names, typeList) == Len(names) = Len(typeList)

\* The condition of line 107 taken for true.
ShapeModeCond_Always(dims, type) == TRUE

\* Line 107
ShapeModeCond(dims, type) == Len(dims) # 0 \/ Len(type) # 0

\* Lines 128-132: the dims of one group.
parseDimsThrows(group) ==
  \E k \in 1..Len(split(",", group)) : stoiThrows(split(",", group)[k])

parseDims(group) ==
  [k \in 1..Len(split(",", group)) |-> stoi(split(",", group)[k])]

\* The type chain with the float branch instantiating uint8_t.
elementType_CopyPaste(type) ==
  IF type = <<"uint8_t">> THEN "uint8_t"
  ELSE IF type = <<"float">> THEN "uint8_t"
  ELSE "unsupported"

\* Lines 143-149 and 157-163: the instantiation of mutable_data chosen.
elementType(type) ==
  IF type = <<"uint8_t">> THEN "uint8_t"
  ELSE IF type = <<"float">> THEN "float"
  ELSE "unsupported"

\* The element type examined before the tensor is resized: an unsupported
\* type leaves the blob as it was found.
materialize_CheckFirst(w, name, T, dims, type) ==
  IF elementType(type) # "unsupported"
    THEN [thrown |-> NoError,
          ws |-> [w EXCEPT ![name] =
                    mutable_data(Resize(GetMutable(w[name], T), dims),
                                 elementType(type))]]
    ELSE [thrown |-> [msg |-> "Unsupported input type: ", arg |-> type],
          ws |-> w]

\* Lines 140-149 and 154-163: the tensor of kind T resized and typed.
materialize(w, name, T, dims, type) ==
  LET tensor == Resize(GetMutable(w[name], T), dims)
  IN IF elementType(type) # "unsupported"
       THEN [thrown |-> NoError,
             ws |-> [w EXCEPT ![name] = mutable_data(tensor, elementType(type))]]
       ELSE [thrown |-> [msg |-> "Unsupported input type: ", arg |-> type],
             ws |-> [w EXCEPT ![name] = tensor]]

\* Lines 128-164: one pass of the loop of shape/type mode.
shapeBody(w, name, group, type, gpu, arch) ==
  IF parseDimsThrows(group)
    THEN [thrown |-> [msg |-> "stoi", arg |-> group], ws |-> w]
    ELSE IF gpu
      THEN IF arch
             THEN materialize(CreateBlob(w, name), name, "TensorCUDA",
                              parseDims(group), type)
             ELSE [thrown |-> [msg |-> "Not support GPU on mobile.",
                               arg |-> <<>>],
                   ws |-> CreateBlob(w, name)]
      ELSE materialize(CreateBlob(w, name), name, "TensorCPU",
                       parseDims(group), type)

\* CreateBlob finding the blob already there and the pass leaving it as it
\* is, without the Deserialize.
fileBody_KeepExisting(w, files, name, file) ==
  IF ReadProtoFromFile(files, file)
    THEN [thrown |-> NoError,
          ws |-> IF HasBlob(w, name) THEN w
                 ELSE [CreateBlob(w, name) EXCEPT
                         ![name] = Deserialize(files[file])]]
    ELSE [thrown |-> [msg |-> "ReadProtoFromFile", arg |-> file], ws |-> w]

\* Lines 103-105: one pass of the loop of file mode.
fileBody(w, files, name, file) ==
  IF ReadProtoFromFile(files, file)
    THEN [thrown |-> NoError,
          ws |-> [CreateBlob(w, name) EXCEPT ![name] = Deserialize(files[file])]]
    ELSE [thrown |-> [msg |-> "ReadProtoFromFile", arg |-> file], ws |-> w]

\* The workspaces loadInput is called with: blob a is there or is not.
InitialStores == {<<>>, <<"a">> :> HostTensor}

\* In file mode the dims and the types are read by nothing; they are drawn
\* from fewer values there: none, one that would pass in shape/type mode for
\* a single name, and a type shape/type mode would refuse.
LoadInputs ==
  /\ input \in {Join(l, ",") : l \in SeqsUpTo(BlobNames, MaxItems)}
  /\ input_file \in {Join(l, ",") : l \in SeqsUpTo(FileNames, MaxItems)}
  /\ \/ /\ input_file = <<>>
        /\ input_dims \in
             {Join(l, ";") :
                l \in SeqsUpTo({<<"2">>, <<"1", ",", "1", "2">>}, MaxItems)}
        /\ input_type \in
             {Join(l, ";") :
                l \in SeqsUpTo({<<"uint8_t">>, <<"float">>, <<"int">>},
                               MaxItems)}
     \/ /\ input_file # <<>>
        /\ input_dims \in {<<>>, <<"2">>}
        /\ input_type \in {<<>>, <<"float">>, <<"int">>}
  /\ ws \in InitialStores
  /\ ws0 = ws
  /\ fs = <<"f">> :> StoredProto
  /\ run_on_gpu \in BOOLEAN
  /\ cuda_arch \in BOOLEAN
  /\ li_pc = "loadInput"
  /\ li_i = 0
  /\ li_err = NoError

InitLoad ==
  /\ LoadInputs
  /\ net_def = [name |-> NoName, op |-> <<>>]
  /\ net0 = net_def
  /\ BackendParked
  /\ RunIdle
  /\ WriteIdle

\* Line 94: no input is asked for.
LoadNoInput ==
  /\ li_pc = "loadInput"
  /\ Len(input) = 0
  /\ li_pc' = "done"
  /\ UNCHANGED <<input, input_file, input_dims, input_type, li_i, li_err, ws>>
  /\ UNCHANGED notLoad

\* Lines 96-101
LoadFileCountMismatch ==
  /\ li_pc = "loadInput"
  /\ Len(input) # 0
  /\ Len(input_file) # 0
  /\ ~FileCountOk(input_names, input_files)
  /\ li_pc' = "failed"
  /\ li_err' = [msg |-> "Input name and file should have the same number.",
                arg |-> <<>>]
  /\ UNCHANGED <<input, input_file, input_dims, input_type, li_i, ws>>
  /\ UNCHANGED notLoad

LoadFileMode ==
  /\ li_pc = "loadInput"
  /\ Len(input) # 0
  /\ Len(input_file) # 0
  /\ FileCountOk(input_names, input_files)
  /\ li_pc' = "fileLoop"
  /\ li_i' = 0
  /\ UNCHANGED <<input, input_file, input_dims, input_type, li_err, ws>>
  /\ UNCHANGED notLoad

\* Lines 102-106
LoadFileStep ==
  /\ li_pc = "fileLoop"
  /\ li_i < Len(input_names)
  /\ fileBody(ws, fs, input_names[li_i + 1], input_files[li_i + 1]).thrown
       = NoError
  /\ ws' = fileBody(ws, fs, input_names[li_i + 1], input_files[li_i + 1]).ws
  /\ li_i' = li_i + 1
  /\ UNCHANGED <<input, input_file, input_dims, input_type, li_pc, li_err>>
  /\ UNCHANGED notLoad

LoadFileStepThrows ==
  /\ li_pc = "fileLoop"
  /\ li_i < Len(input_names)
  /\ fileBody(ws, fs, input_names[li_i + 1], input_files[li_i + 1]).thrown
       # NoError
  /\ ws' = fileBody(ws, fs, input_names[li_i + 1], input_files[li_i + 1]).ws
  /\ li_err' =
       fileBody(ws, fs, input_names[li_i + 1], input_files[li_i + 1]).thrown
  /\ li_pc' = "failed"
  /\ UNCHANGED <<input, input_file, input_dims, input_type, li_i>>
  /\ UNCHANGED notLoad

LoadFileDone ==
  /\ li_pc = "fileLoop"
  /\ ~(li_i < Len(input_names))
  /\ li_pc' = "done"
  /\ UNCHANGED <<input, input_file, input_dims, input_type, li_i, li_err, ws>>
  /\ UNCHANGED notLoad

\* Lines 107-121.  The two CAFFE_ENFORCE_GE of lines 108-115 compare a size
\* with 0 and cannot fail.
LoadDimsCountMismatch ==
  /\ li_pc = "loadInput"
  /\ Len(input) # 0
  /\ Len(input_file) = 0
  /\ ShapeModeCond(input_dims, input_type)
  /\ ~DimsCountOk(input_names, input_dims_list)
  /\ li_pc' = "failed"
  /\ li_err' =
       [msg |-> "Input name and dims should have the same number of items.",
        arg |-> <<>>]
  /\ UNCHANGED <<input, input_file, input_dims, input_type, li_i, ws>>
  /\ UNCHANGED notLoad

\* Lines 122-126
LoadTypeCountMismatch ==
  /\ li_pc = "loadInput"
  /\ Len(input) # 0
  /\ Len(input_file) = 0
  /\ ShapeModeCond(input_dims, input_type)
  /\ DimsCountOk(input_names, input_dims_list)
  /\ ~TypeCountOk(input_names, input_type_list)
  /\ li_pc' = "failed"
  /\ li_err' =
       [msg |-> "Input name and type should have the same number of items.",
        arg |-> <<>>]
  /\ UNCHANGED <<input, input_file, input_dims, input_type, li_i, ws>>
  /\ UNCHANGED notLoad

\* The test of line 107 as a plain `if`, not the `else if` of the file
\* test of line 96: the dims and the types are applied whenever supplied.
LoadShapeMode_NotExclusive ==
  /\ li_pc = "loadInput"
  /\ Len(input) # 0
  /\ ShapeModeCond(input_dims, input_type)
  /\ DimsCountOk(input_names, input_dims_list)
  /\ TypeCountOk(input_names, input_type_list)
  /\ li_pc' = "shapeLoop"
  /\ li_i' = 0
  /\ UNCHANGED <<input, input_file, input_dims, input_type, li_err, ws>>
  /\ UNCHANGED notLoad

\* Lines 107-126 with every count matching: entry of the loop of line 127.
LoadShapeMode ==
  /\ li_pc = "loadInput"
  /\ Len(input) # 0
  /\ Len(input_file) = 0
  /\ ShapeModeCond(input_dims, input_type)
  /\ DimsCountOk(input_names, input_dims_list)
  /\ TypeCountOk(input_names, input_type_list)
  /\ li_pc' = "shapeLoop"
  /\ li_i' = 0
  /\ UNCHANGED <<input, input_file, input_dims, input_type, li_err, ws>>
  /\ UNCHANGED notLoad

\* Lines 127-165
LoadShapeStep ==
  /\ li_pc = "shapeLoop"
  /\ li_i < Len(input_names)
  /\ shapeBody(ws, input_names[li_i + 1], input_dims_list[li_i + 1],
               input_type_list[li_i + 1], run_on_gpu, cuda_arch).thrown
       = NoError
  /\ ws' = shapeBody(ws, input_names[li_i + 1], input_dims_list[li_i + 1],
                     input_type_list[li_i + 1], run_on_gpu, cuda_arch).ws
  /\ li_i' = li_i + 1
  /\ UNCHANGED <<input, input_file, input_dims, input_type, li_pc, li_err>>
  /\ UNCHANGED notLoad

LoadShapeStepThrows ==
  /\ li_pc = "shapeLoop"
  /\ li_i < Len(input_names)
  /\ shapeBody(ws, input_names[li_i + 1], input_dims_list[li_i + 1],
               input_type_list[li_i + 1], run_on_gpu, cuda_arch).thrown
       # NoError
  /\ ws' = shapeBody(ws, input_names[li_i + 1], input_dims_list[li_i + 1],
                     input_type_list[li_i + 1], run_on_gpu, cuda_arch).ws
  /\ li_err' =
       shapeBody(ws, input_names[li_i + 1], input_dims_list[li_i + 1],
                 input_type_list[li_i + 1], run_on_gpu, cuda_arch).thrown
  /\ li_pc' = "failed"
  /\ UNCHANGED <<input, input_file, input_dims, input_type, li_i>>
  /\ UNCHANGED notLoad

LoadShapeDone ==
  /\ li_pc = "shapeLoop"
  /\ ~(li_i < Len(input_names))
  /\ li_pc' = "done"
  /\ UNCHANGED <<input, input_file, input_dims, input_type, li_i, li_err, ws>>
  /\ UNCHANGED notLoad

\* Lines 166-170
LoadNoSource ==
  /\ li_pc = "loadInput"
  /\ Len(input) # 0
  /\ Len(input_file) = 0
  /\ ~ShapeModeCond(input_dims, input_type)
  /\ li_pc' = "failed"
  /\ li_err' = [msg |-> "You requested input tensors, but neither input_file nor input_dims is set.",
                arg |-> <<>>]
  /\ UNCHANGED <<input, input_file, input_dims, input_type, li_i, ws>>
  /\ UNCHANGED notLoad

NextLoad ==
  \/ LoadNoInput
  \/ LoadFileCountMismatch
  \/ LoadFileMode
  \/ LoadFileStep
  \/ LoadFileStepThrows
  \/ LoadFileDone
  \/ LoadDimsCountMismatch
  \/ LoadTypeCountMismatch
  \/ LoadShapeMode
  \/ LoadShapeStep
  \/ LoadShapeStepThrows
  \/ LoadShapeDone
  \/ LoadNoSource

SpecLoad == InitLoad /\ [][NextLoad]_vars

----------------------------------------------------------------------------
(* Claims on loadInput *)

\* The two modes, as the branches of lines 94, 96 and 107 select them.
FileMode == input # <<>> /\ input_file # <<>>

ShapeTypeMode ==
  /\ input # <<>>
  /\ input_file = <<>>
  /\ input_dims # <<>> \/ input_type # <<>>

CountMismatchMessage ==
  IF FileMode
    THEN "Input name and file should have the same number."
  ELSE IF Len(input_names) # Len(input_dims_list)
    THEN "Input name and dims should have the same number of items."
  ELSE "Input name and type should have the same number of items."

LastIndex(names, n) ==
  CHOOSE k \in 1..Len(names) :
    /\ names[k] = n
    /\ \A j \in (k + 1)..Len(names) : names[j] # n

SupportedTypes == {<<"uint8_t">>, <<"float">>}

\* C8: in shape/type mode, once loadInput has returned, the three lists had
\* equal lengths and only supported types, and the workspace holds under
\* every listed name a tensor whose shape is the dims parsed for that name,
\* whose element type is the one requested for it, and whose storage is
\* allocated, whether the blob was there before or not; such a call does
\* not fail unless it asks for the accelerator in a build without it.
C8_ShapeAndTypeMaterialized ==
  /\ (ShapeTypeMode /\ li_pc = "done") =>
       /\ Len(input_dims_list) = Len(input_names)
       /\ Len(input_type_list) = Len(input_names)
       /\ \A k \in 1..Len(input_names) :
            LET n == input_names[k]
                last == LastIndex(input_names, n)
            IN /\ input_type_list[k] \in SupportedTypes
               /\ HasBlob(ws, n)
               /\ ws[n].type =
                    (IF run_on_gpu THEN "TensorCUDA" ELSE "TensorCPU")
               /\ ws[n].dims = parseDims(input_dims_list[last])
               /\ <<ws[n].dtype>> = input_type_list[last]
               /\ ws[n].size = Prod(ws[n].dims)
               /\ ws[n].size > 0 => ws[n].data # "none"
  /\ (/\ ShapeTypeMode
      /\ ~run_on_gpu \/ cuda_arch
      /\ Len(input_dims_list) = Len(input_names)
      /\ Len(input_type_list) = Len(input_names)
      /\ \A k \in 1..Len(input_type_list) :
           input_type_list[k] \in SupportedTypes) =>
       /\ li_pc # "failed"
       /\ li_err = NoError
       /\ li_pc = "shapeLoop" => li_i <= Len(input_names)

C8_Witness ==
  /\ li_pc = "done"
  /\ input = <<"a", ",", "b">>
  /\ input_dims = <<"1", ",", "1", "2", ";", "2">>
  /\ input_type = <<"uint8_t", ";", "float">>
  /\ HasBlob(ws0, <<"a">>)
  /\ ~HasBlob(ws0, <<"b">>)
  /\ ws[<<"a">>].dims = <<1, 12>>
  /\ ws[<<"a">>].dtype = "uint8_t"
  /\ ws[<<"b">>].dims = <<2>>
  /\ ws[<<"b">>].dtype = "float"

\* The last position up to position i (1-based) at which the name n is
\* listed.
LastIndexUpTo(names, n, i) ==
  CHOOSE k \in 1..i :
    /\ names[k] = n
    /\ \A j \in (k + 1)..i : names[j] # n

FileModeErrors ==
  {NoError,
   [msg |-> "Input name and file should have the same number.", arg |-> <<>>]}
    \cup {[msg |-> "ReadProtoFromFile", arg |-> f] : f \in FileNames}

\* C17: when the name list and the file list are both non-empty loadInput is
\* in file mode whatever the dims and the types are. It never enters the
\* loop of shape/type mode and never raises one of its errors; it fails only
\* on unequal numbers of names and files or on a file it cannot read; and the
\* workspace is at every moment the one it was called with plus, under each
\* name processed so far, the tensor deserialized from the file of that
\* name, so that nothing of the dims and the types reaches it.
C17_FileModeWins ==
  FileMode =>
    /\ li_pc \in {"loadInput", "fileLoop", "done", "failed"}
    /\ li_err \in FileModeErrors
    /\ li_pc \in {"fileLoop", "done"} =>
         (Len(input_names) = Len(input_files) /\ li_i <= Len(input_names))
    /\ li_pc = "done" => li_i = Len(input_names)
    /\ (li_pc = "failed" /\ Len(input_names) = Len(input_files)) =>
         /\ li_err = [msg |-> "ReadProtoFromFile",
                      arg |-> input_files[li_i + 1]]
         /\ ~ReadProtoFromFile(fs, input_files[li_i + 1])
    /\ (li_pc = "failed" /\ Len(input_names) # Len(input_files)) =>
         /\ li_err.msg = "Input name and file should have the same number."
         /\ ws = ws0
    /\ LET done == IF li_pc = "loadInput" THEN 0 ELSE li_i IN
       /\ DOMAIN ws = DOMAIN ws0 \cup {input_names[j] : j \in 1..done}
       /\ \A n \in DOMAIN ws :
            IF \E j \in 1..done : input_names[j] = n
              THEN ws[n] =
                     Deserialize(fs[input_files[
                                      LastIndexUpTo(input_names, n, done)]])
              ELSE ws[n] = ws0[n]

C17_Witness ==
  /\ FileMode
  /\ li_pc = "done"
  /\ input = <<"a">>
  /\ input_file = <<"f">>
  /\ input_dims = <<"2">>
  /\ input_type = <<"int">>
  /\ HasBlob(ws0, <<"a">>)
  /\ ws[<<"a">>] = Deserialize(StoredProto)
  /\ ws[<<"a">>].dims = <<3, 2>>

UnsupportedTypeRaised ==
  li_pc = "failed" /\ li_err.msg = "Unsupported input type: "

\* C20: the unsupported-type error is raised from inside the loop of
\* shape/type mode, for the first position whose type is neither uint8_t nor
\* float. When it is raised at position li_i the names before that position
\* are fully materialized (shape, element type, storage), the blob of that
\* position exists as a tensor resized to its parsed dims, the names listed
\* only after that position are as they were before the call, and what was
\* created stays in the workspace.
C20_UnsupportedTypeAfterMutation ==
  UnsupportedTypeRaised =>
    LET p == li_i + 1
        bad == input_names[p]
    IN
    /\ ShapeTypeMode
    /\ Len(input_dims_list) = Len(input_names)
    /\ Len(input_type_list) = Len(input_names)
    /\ p \in 1..Len(input_names)
    /\ input_type_list[p] \notin SupportedTypes
    /\ li_err.arg = input_type_list[p]
    /\ \A k \in 1..(p - 1) :
         LET n == input_names[k]
             last == LastIndexUpTo(input_names, n, p - 1)
         IN /\ input_type_list[k] \in SupportedTypes
            /\ HasBlob(ws, n)
            /\ n # bad =>
                 /\ ws[n].dims = parseDims(input_dims_list[last])
                 /\ <<ws[n].dtype>> = input_type_list[last]
                 /\ ws[n].size = Prod(ws[n].dims)
                 /\ ws[n].size > 0 => ws[n].data # "none"
    /\ HasBlob(ws, bad)
    /\ ws[bad].type = (IF run_on_gpu THEN "TensorCUDA" ELSE "TensorCPU")
    /\ ws[bad].dims = parseDims(input_dims_list[p])
    /\ ws[bad].size = Prod(ws[bad].dims)
    /\ \A k \in (p + 1)..Len(input_names) :
         LET n == input_names[k] IN
         (\A j \in 1..p : input_names[j] # n) =>
           /\ HasBlob(ws, n) <=> HasBlob(ws0, n)
           /\ HasBlob(ws0, n) => ws[n] = ws0[n]
    /\ DOMAIN ws = DOMAIN ws0 \cup {input_names[j] : j \in 1..p}

C20_Witness ==
  /\ UnsupportedTypeRaised
  /\ input = <<"b", ",", "a">>
  /\ input_dims = <<"2", ";", "1", ",", "1", "2">>
  /\ input_type = <<"float", ";", "int">>
  /\ li_i = 1
  /\ ws0 = <<>>
  /\ ws[<<"b">>].dtype = "float"
  /\ ws[<<"a">>].dims = <<1, 12>>

\* C10: when the name list is not empty and the file list, the dims list and
\* the type list all are, loadInput fails with "You requested input tensors,
\* but neither input_file nor input_dims is set." and leaves the workspace
\* as it was.
C10_NoSourceFails ==
  (input # <<>> /\ input_file = <<>> /\ input_dims = <<>>
     /\ input_type = <<>>) =>
    /\ li_pc \in {"loadInput", "failed"}
    /\ ws = ws0
    /\ li_pc = "failed" =>
         li_err = [msg |-> "You requested input tensors, but neither input_file nor input_dims is set.",
                   arg |-> <<>>]

C10_Witness ==
  /\ input = <<"a", ",", "b">>
  /\ input_file = <<>>
  /\ input_dims = <<>>
  /\ input_type = <<>>
  /\ HasBlob(ws0, <<"a">>)
  /\ li_pc = "failed"

----------------------------------------------------------------------------
(* writeOutput: lines 210-250 *)

\* Line 216
output_prefix ==
  IF Len(output_folder) # 0 THEN output_folder \o <<"/">> ELSE <<>>

\* The wildcard test never succeeding.
IsWildcard_Never(out) == FALSE

\* Line 219
IsWildcard(out) == out = <<"*">>

\* Workspace::Blobs() with the first name of the vector missing.
Blobs_DropFirst(w) ==
  {Tail(names) : names \in
     {l \in [1..Cardinality(DOMAIN w) -> DOMAIN w] :
        \A i, j \in 1..Len(l) : l[i] = l[j] => i = j}}

\* Workspace::Blobs(): the names of the blobs, in an order the caller does
\* not choose.
Blobs(w) ==
  {names \in [1..Cardinality(DOMAIN w) -> DOMAIN w] :
     \A i, j \in 1..Len(names) : names[i] = names[j] => i = j}

\* The file named without the folder.
BinaryWrite_NoPrefix(w, name) ==
  [kind |-> "binary", name |-> name, file |-> name,
   content |-> Serialize(w[name], name)]

\* Lines 244-246: the file written for one blob in binary mode.
BinaryWrite(w, name) ==
  [kind |-> "binary", name |-> name, file |-> output_prefix \o name,
   content |-> Serialize(w[name], name)]

\* Lines 230-233 and 238-241: the report written for one blob in text mode.
TextWrite(w, name, T) ==
  [kind |-> "text", name |-> name, file |-> output_prefix \o name,
   content |-> Serialize(GetMutable(w[name], T), name)]

DeviceTensor ==
  [type |-> "TensorCUDA", dims |-> <<2>>, size |-> 2, dtype |-> "float",
   data |-> "w"]

\* A workspace after the net has run: some of the names, each with a
\* tensor; an accelerator tensor only in a build that has them.
WriteInputs ==
  /\ output \in {<<"*">>} \cup
                {Join(l, ",") : l \in SeqsUpTo(BlobNames, MaxItems)}
  /\ output_folder \in {<<>>, <<"out">>}
  /\ text_output \in BOOLEAN
  /\ run_on_gpu \in BOOLEAN
  /\ cuda_arch \in BOOLEAN
  /\ ws \in UNION {[S -> {HostTensor, DeviceTensor}] : S \in SUBSET BlobNames}
  /\ \A n \in DOMAIN ws : ws[n].type = "TensorCUDA" => cuda_arch
  /\ ws0 = ws
  /\ fs = <<>>
  /\ wo_pc = "writeOutput"
  /\ output_names = <<>>
  /\ wo_k = 0
  /\ wo_lookups = <<>>
  /\ wo_log = <<>>
  /\ wo_err = NoError

InitWrite ==
  /\ WriteInputs
  /\ net_def = [name |-> NoName, op |-> <<>>]
  /\ net0 = net_def
  /\ BackendParked
  /\ RunIdle
  /\ LoadIdle

\* Line 217: no output is asked for.
WriteNoOutput ==
  /\ wo_pc = "writeOutput"
  /\ Len(output) = 0
  /\ wo_pc' = "done"
  /\ UNCHANGED <<output, output_folder, text_output, output_names, wo_k,
                 wo_lookups, wo_log, wo_err, ws, fs>>
  /\ UNCHANGED notWrite

\* Lines 218-221
WriteAllBlobs ==
  /\ wo_pc = "writeOutput"
  /\ Len(output) # 0
  /\ IsWildcard(output)
  /\ output_names' \in Blobs(ws)
  /\ wo_k' = 0
  /\ wo_pc' = "loop"
  /\ UNCHANGED <<output, output_folder, text_output, wo_lookups, wo_log,
                 wo_err, ws, fs>>
  /\ UNCHANGED notWrite

WriteNamedBlobs ==
  /\ wo_pc = "writeOutput"
  /\ Len(output) # 0
  /\ ~IsWildcard(output)
  /\ output_names' = split(",", output)
  /\ wo_k' = 0
  /\ wo_pc' = "loop"
  /\ UNCHANGED <<output, output_folder, text_output, wo_lookups, wo_log,
                 wo_err, ws, fs>>
  /\ UNCHANGED notWrite

\* Lines 223-226: the CAFFE_ENFORCE fails.
WriteMissingBlob ==
  /\ wo_pc = "loop"
  /\ wo_k < Len(output_names)
  /\ ~HasBlob(ws, output_names[wo_k + 1])
  /\ wo_lookups' = Append(wo_lookups, output_names[wo_k + 1])
  /\ wo_err' = [msg |-> "You requested a non-existing blob: ",
                arg |-> output_names[wo_k + 1]]
  /\ wo_pc' = "failed"
  /\ UNCHANGED <<output, output_folder, text_output, output_names, wo_k,
                 wo_log, ws, fs>>
  /\ UNCHANGED notWrite

\* Lines 227-233, in a build with the accelerator.
WriteTextDevice ==
  /\ wo_pc = "loop"
  /\ wo_k < Len(output_names)
  /\ HasBlob(ws, output_names[wo_k + 1])
  /\ text_output
  /\ run_on_gpu
  /\ cuda_arch
  /\ wo_lookups' = Append(wo_lookups, output_names[wo_k + 1])
  /\ ws' = [ws EXCEPT ![output_names[wo_k + 1]] = GetMutable(@, "TensorCUDA")]
  /\ wo_log' =
       Append(wo_log, TextWrite(ws, output_names[wo_k + 1], "TensorCUDA"))
  /\ wo_k' = wo_k + 1
  /\ UNCHANGED <<output, output_folder, text_output, output_names, wo_pc,
                 wo_err, fs>>
  /\ UNCHANGED notWrite

\* Lines 227-236, in a build without it.
WriteTextDeviceThrows ==
  /\ wo_pc = "loop"
  /\ wo_k < Len(output_names)
  /\ HasBlob(ws, output_names[wo_k + 1])
  /\ text_output
  /\ run_on_gpu
  /\ ~cuda_arch
  /\ wo_lookups' = Append(wo_lookups, output_names[wo_k + 1])
  /\ wo_err' = [msg |-> "Not support GPU.", arg |-> <<>>]
  /\ wo_pc' = "failed"
  /\ UNCHANGED <<output, output_folder, text_output, output_names, wo_k,
                 wo_log, ws, fs>>
  /\ UNCHANGED notWrite

\* Lines 237-242
WriteTextHost ==
  /\ wo_pc = "loop"
  /\ wo_k < Len(output_names)
  /\ HasBlob(ws, output_names[wo_k + 1])
  /\ text_output
  /\ ~run_on_gpu
  /\ wo_lookups' = Append(wo_lookups, output_names[wo_k + 1])
  /\ ws' = [ws EXCEPT ![output_names[wo_k + 1]] = GetMutable(@, "TensorCPU")]
  /\ wo_log' =
       Append(wo_log, TextWrite(ws, output_names[wo_k + 1], "TensorCPU"))
  /\ wo_k' = wo_k + 1
  /\ UNCHANGED <<output, output_folder, text_output, output_names, wo_pc,
                 wo_err, fs>>
  /\ UNCHANGED notWrite

\* Lines 243-247
WriteBinary ==
  /\ wo_pc = "loop"
  /\ wo_k < Len(output_names)
  /\ HasBlob(ws, output_names[wo_k + 1])
  /\ ~text_output
  /\ wo_lookups' = Append(wo_lookups, output_names[wo_k + 1])
  /\ fs' = [f \in DOMAIN fs \cup {BinaryWrite(ws, output_names[wo_k + 1]).file}
              |-> IF f = BinaryWrite(ws, output_names[wo_k + 1]).file
                    THEN BinaryWrite(ws, output_names[wo_k + 1]).content
                    ELSE fs[f]]
  /\ wo_log' = Append(wo_log, BinaryWrite(ws, output_names[wo_k + 1]))
  /\ wo_k' = wo_k + 1
  /\ UNCHANGED <<output, output_folder, text_output, output_names, wo_pc,
                 wo_err, ws>>
  /\ UNCHANGED notWrite

\* Line 248: the range-for has ended.
WriteOutputReturns ==
  /\ wo_pc = "loop"
  /\ ~(wo_k < Len(output_names))
  /\ wo_pc' = "done"
  /\ UNCHANGED <<output, output_folder, text_output, output_names, wo_k,
                 wo_lookups, wo_log, wo_err, ws, fs>>
  /\ UNCHANGED notWrite

NextWrite ==
  \/ WriteNoOutput
  \/ WriteAllBlobs
  \/ WriteNamedBlobs
  \/ WriteMissingBlob
  \/ WriteTextDevice
  \/ WriteTextDeviceThrows
  \/ WriteTextHost
  \/ WriteBinary
  \/ WriteOutputReturns

SpecWrite == InitWrite /\ [][NextWrite]_vars

----------------------------------------------------------------------------
(* Claims on writeOutput *)

\* The requested names, and whether one of them is absent from the store.
RequestedNames == split(",", output)

AbsentRequested ==
  /\ ~IsWildcard(output)
  /\ ~text_output
  /\ \E k \in 1..Len(RequestedNames) : ~HasBlob(ws0, RequestedNames[k])

FirstAbsent ==
  CHOOSE k \in 1..Len(RequestedNames) :
    /\ ~HasBlob(ws0, RequestedNames[k])
    /\ \A j \in 1..(k - 1) : HasBlob(ws0, RequestedNames[j])

\* C2 as stated: in binary mode, when a requested name is absent from the
\* store, at whatever position, writeOutput fails with the "non-existing
\* blob" error naming it and no file has been written by then.
C2_NoFileWrittenOnFailure ==
  (AbsentRequested /\ wo_pc = "failed") =>
    /\ wo_err.msg = "You requested a non-existing blob: "
    /\ ~HasBlob(ws0, wo_err.arg)
    /\ wo_log = <<>>
    /\ fs = <<>>

\* C2 amended: in binary mode, when a requested name is absent from the
\* store, writeOutput never returns; it fails with the "non-existing blob"
\* error naming the first absent name of the list, and by then it has
\* written the file of every name that precedes that one in the list, in
\* order, and no other: no file at all only when the absent name comes first.
C2_FilesBeforeFirstAbsentWritten ==
  AbsentRequested =>
    /\ wo_pc # "done"
    /\ wo_pc # "failed" => ENABLED NextWrite
    /\ ws = ws0
    /\ wo_pc = "failed" =>
         /\ wo_err = [msg |-> "You requested a non-existing blob: ",
                      arg |-> RequestedNames[FirstAbsent]]
         /\ wo_log = [j \in 1..(FirstAbsent - 1) |->
                        BinaryWrite(ws0, RequestedNames[j])]
         /\ DOMAIN fs = {output_prefix \o RequestedNames[j] :
                           j \in 1..(FirstAbsent - 1)}
         /\ FirstAbsent = 1 => fs = <<>>

C2_Witness ==
  /\ output = <<"a", ",", "b">>
  /\ ~text_output
  /\ DOMAIN ws0 = {<<"a">>}
  /\ output_folder = <<"out">>
  /\ wo_pc = "failed"
  /\ wo_err.arg = <<"b">>
  /\ DOMAIN fs = {<<"out", "/", "a">>}

WrittenNames == {wo_log[k].name : k \in 1..Len(wo_log)}

\* C9: with the wildcard * as the requested output, writeOutput looks up and
\* writes names of blobs present in the store at the time of the call only,
\* each at most once, never meets a missing blob, and when it returns it has
\* written every blob of the store exactly once.
C9_WildcardWritesEveryBlobOnce ==
  (output = <<"*">> /\ wo_pc # "writeOutput") =>
    /\ \A k \in 1..Len(wo_lookups) : wo_lookups[k] \in DOMAIN ws0
    /\ \A i, j \in 1..Len(wo_lookups) : wo_lookups[i] = wo_lookups[j] => i = j
    /\ WrittenNames \subseteq DOMAIN ws0
    /\ \A i, j \in 1..Len(wo_log) : wo_log[i].name = wo_log[j].name => i = j
    /\ \A k \in 1..Len(wo_log) :
         /\ wo_log[k].name = wo_lookups[k]
         /\ wo_log[k].kind = (IF text_output THEN "text" ELSE "binary")
    /\ wo_err.msg # "You requested a non-existing blob: "
    /\ DOMAIN ws = DOMAIN ws0
    /\ wo_pc = "done" =>
         /\ WrittenNames = DOMAIN ws0
         /\ Len(wo_log) = Cardinality(DOMAIN ws0)
         /\ Len(wo_lookups) = Cardinality(DOMAIN ws0)
         /\ ~text_output =>
              DOMAIN fs = {output_prefix \o n : n \in DOMAIN ws0}

C9_Witness ==
  /\ output = <<"*">>
  /\ wo_pc = "done"
  /\ DOMAIN ws0 = {<<"a">>, <<"b">>}
  /\ Len(wo_log) = 2
  /\ wo_log[1].name = <<"b">>
  /\ ~text_output

----------------------------------------------------------------------------
(* Round trip: writeOutput in binary mode, then loadInput in file mode on   *)
(* the files it wrote                                                       *)

\* The files writeOutput has written so far.
WrittenFiles == {wo_log[k].file : k \in 1..Len(wo_log)}

\* The name of the blob a written file holds.
BlobWrittenTo(file) ==
  wo_log[CHOOSE k \in 1..Len(wo_log) : wo_log[k].file = file].name

InitRoundTrip ==
  /\ WriteInputs
  /\ text_output = FALSE
  /\ net_def = [name |-> NoName, op |-> <<>>]
  /\ net0 = net_def
  /\ BackendParked
  /\ RunIdle
  /\ LoadIdle

\* The caller, once writeOutput has ended, asks loadInput for some of the
\* files it wrote, each under a name of the caller's choice, in the same
\* workspace.
CallLoadInput ==
  /\ wo_pc \in {"done", "failed"}
  /\ li_pc = "parked"
  /\ \E pairs \in SeqsUpTo(BlobNames \X WrittenFiles, MaxItems) :
       /\ pairs # <<>>
       /\ input' = Join([k \in 1..Len(pairs) |-> pairs[k][1]], ",")
       /\ input_file' = Join([k \in 1..Len(pairs) |-> pairs[k][2]], ",")
  /\ input_dims' = <<>>
  /\ input_type' = <<>>
  /\ li_pc' = "loadInput"
  /\ li_i' = 0
  /\ li_err' = NoError
  /\ UNCHANGED <<bcVars, rnVars, woVars, storeVars>>

NextRoundTrip ==
  \/ WriteNoOutput
  \/ WriteAllBlobs
  \/ WriteNamedBlobs
  \/ WriteMissingBlob
  \/ WriteBinary
  \/ WriteOutputReturns
  \/ CallLoadInput
  \/ LoadFileMode
  \/ LoadFileStep
  \/ LoadFileDone

SpecRoundTrip == InitRoundTrip /\ [][NextRoundTrip]_vars

=============================================================================
